---- MODULE Spec2Model ----
(***************************************************************************)
(* Windsurf Logger dashboard: the React front end (three revisions of     *)
(* App.jsx) as a state machine.  The state is the useState cells of App   *)
(* and DirectoryPicker; the derived values (useMemo, render-time          *)
(* constants) are operators over that state.                              *)
(***************************************************************************)
EXTENDS Integers, Sequences, FiniteSets, Bags, TLC

VARIABLES
    sessions,          \* App: useState([]) list of {id, events}
    selectedSession,   \* App: useState(null)
    viewMode,          \* App: useState('workflow')
    logs,              \* App: useState([]) entries of the last response
    filterCategory,    \* App: useState('all')
    filterUser,        \* App: useState('all')
    filterSession,     \* App: useState('all')
    searchQuery,       \* App: useState('')
    useRegex,          \* App: useState(false)
    loading,           \* App: useState(true)
    toasts,            \* App: useState([]) list of {id, message, type}
    timers,            \* pending setTimeout callbacks of addToast, by toast id
    now,               \* Date.now()
    inflight,          \* logs requests sent and not yet settled
    lastRequest,       \* the logs request sent most recently
    selectedEntryIndex, \* App: useState(-1)
    showFilePicker,    \* App: useState(false)
    currentDir,        \* App: useState('<logs directory>')
    selectedFiles,     \* App: useState([])
    storageSource,     \* DirectoryPicker: useState('local')
    s3Config,          \* DirectoryPicker: useState({bucket: '', ...})
    azureConfig,       \* DirectoryPicker: useState({container: '', ...})
    credentialMode,    \* DirectoryPicker: useState('env')
    testingConnection, \* DirectoryPicker: useState(false)
    connectionStatus,  \* DirectoryPicker: useState(null)
    pending,           \* storage requests sent and not yet settled
    alert              \* the message of the open window.alert dialog, or Null

corrVars == <<sessions, selectedSession, viewMode>>
listVars == <<logs, filterCategory, filterUser, filterSession>>
searchVars == <<searchQuery, useRegex, loading, toasts, timers, now, inflight,
                lastRequest, selectedEntryIndex>>
appDirVars == <<showFilePicker, currentDir, selectedFiles>>
pickerState == <<storageSource, s3Config, azureConfig, credentialMode,
                 testingConnection, connectionStatus>>
pickerVars == <<appDirVars, pickerState, pending, alert>>
vars == <<corrVars, listVars, searchVars, pickerVars>>

\* the request of fetchLogs() with no filter set and an empty search box
MountRequest ==
    [kind |-> "fetch", q |-> "", regex |-> FALSE,
     category |-> "all", user |-> "all", session |-> "all"]

(***************************************************************************)
(* Bounds                                                                  *)
(***************************************************************************)
MaxEvents == 3         \* events held by the session list
MaxLogs == 3           \* entries held by the log list
MaxInFlight == 2       \* logs requests in flight at once
MaxToasts == 2         \* toast timers pending at once
MaxNow == 1            \* milliseconds the clock advances
MaxPending == 1        \* storage requests in flight at once

(***************************************************************************)
(* Values                                                                  *)
(***************************************************************************)
Null == "null"                 \* JavaScript null for a string-valued cell
InitialDir == "/logs"          \* the log directory App starts in
InitialS3Config ==
    [bucket |-> "", prefix |-> "", region |-> "us-east-1",
     accessKeyId |-> "", secretAccessKey |-> ""]
InitialAzureConfig ==
    [container |-> "", path |-> "", accountName |-> "", accountKey |-> ""]
NoTimestamp == -1              \* an event whose timestamp field is absent
RelevantWindowMs == 300000     \* 5 * 60 * 1000
Infinity == 1000000000         \* larger than every timestamp of the model

\* Timestamps (ms since the epoch) the hook events carry: 15, 19 and 24
\* minutes, so that gaps of 4 minutes, of exactly 5 minutes and of more
\* than 5 minutes (9, and 15 to 24 from time 0) all occur.
Timestamps == {NoTimestamp, 900000, 1140000, 1440000}
TrajectoryIds == {"", "A", "B"}          \* "" = event logged without one
\* (category, type) pairs of the events: a prompt carrying a category, and
\* an older-format record that carries only a type
EventKinds == {<<"prompt", "">>, <<"", "file_write">>}

NullEvent == [event_id |-> 0, trajectory_id |-> "", category |-> "",
              type |-> "", timestamp |-> NoTimestamp]

\* Number of events in a session list
RECURSIVE EventCount(_)
EventCount(ss) ==
    IF ss = <<>> THEN 0 ELSE Len(Head(ss).events) + EventCount(Tail(ss))

(***************************************************************************)
(* Server side of /logs/sessions (SessionBuilder): events are grouped by  *)
(* trajectory_id, the bucket "no_session" standing in for an absent id.   *)
(***************************************************************************)
SessionIdOf(e) == IF e.trajectory_id = "" THEN "no_session" ELSE e.trajectory_id

RECURSIVE SessionAdd(_, _)
SessionAdd(ss, e) ==
    IF ss = <<>> THEN << [id |-> SessionIdOf(e), events |-> <<e>>] >>
    ELSE IF Head(ss).id = SessionIdOf(e)
         THEN << [Head(ss) EXCEPT !.events = Append(@, e)] >> \o Tail(ss)
         ELSE << Head(ss) >> \o SessionAdd(Tail(ss), e)

(***************************************************************************)
(* workflowGroups (useMemo over selectedSession, sessions)                 *)
(***************************************************************************)
\* an absent timestamp ordered after every other
TimeOf_MissingIsLast(e) == IF e.timestamp = NoTimestamp THEN Infinity ELSE e.timestamp

\* new Date(x.timestamp || 0).getTime()
TimeOf(e) == IF e.timestamp = NoTimestamp THEN 0 ELSE e.timestamp

\* (e.category || e.type)
CategoryOrType(e) == IF e.category # "" THEN e.category ELSE e.type

\* sessions.forEach(session => session.events.forEach(push))
RECURSIVE AllEvents(_)
AllEvents(ss) ==
    IF ss = <<>> THEN <<>> ELSE Head(ss).events \o AllEvents(Tail(ss))

\* Array.prototype.sort with (a, b) => timeA - timeB: stable, ascending
RECURSIVE InsertByTime(_, _)
InsertByTime(sorted, e) ==
    IF sorted = <<>> THEN <<e>>
    ELSE IF TimeOf(Head(sorted)) - TimeOf(e) > 0
         THEN <<e>> \o sorted
         ELSE <<Head(sorted)>> \o InsertByTime(Tail(sorted), e)

RECURSIVE SortByTime(_)
SortByTime(s) ==
    IF s = <<>> THEN <<>>
    ELSE InsertByTime(SortByTime(SubSeq(s, 1, Len(s) - 1)), s[Len(s)])

IsPrompt(e) == CategoryOrType(e) = "prompt"
IsAction(e) == CategoryOrType(e) # "prompt"

\* the prompts taken from the events before they are sorted
Prompts_Unsorted(ss) == SelectSeq(AllEvents(ss), IsPrompt)

\* allEvents.filter(e => (e.category || e.type) === 'prompt') after the sort
Prompts(ss) == SelectSeq(SortByTime(AllEvents(ss)), IsPrompt)
Actions(ss) == SelectSeq(SortByTime(AllEvents(ss)), IsAction)

InWindow_NoUpperBound(a, promptTime, nextPromptTime) ==
    TimeOf(a) > promptTime

\* actionTime > promptTime && actionTime < nextPromptTime
InWindow(a, promptTime, nextPromptTime) ==
    TimeOf(a) > promptTime /\ TimeOf(a) < nextPromptTime

RelatedActions(pool, promptTime, nextPromptTime) ==
    LET Test(a) == InWindow(a, promptTime, nextPromptTime)
    IN  SelectSeq(pool, Test)

NextPromptTime(ps, i) ==
    IF i < Len(ps) THEN TimeOf(ps[i + 1]) ELSE Infinity

\* the no_session view restricted to the actions logged under the prompt's
\* own session
NoSessionGroups_OwnSessionOnly(ss) ==
    LET ps == Prompts(ss)
        as == Actions(ss)
    IN  [i \in 1..Len(ps) |->
            [prompt  |-> ps[i],
             actions |-> LET Own(a) == a.trajectory_id = ps[i].trajectory_id
                         IN  SelectSeq(RelatedActions(as, TimeOf(ps[i]),
                                                      NextPromptTime(ps, i)), Own)]]

\* selectedSession === 'no_session': one group per prompt
NoSessionGroups(ss) ==
    LET ps == Prompts(ss)
        as == Actions(ss)
    IN  [i \in 1..Len(ps) |->
            [prompt  |-> ps[i],
             actions |-> RelatedActions(as, TimeOf(ps[i]), NextPromptTime(ps, i))]]

\* sessions.find(s => s.id === selectedSession)
RECURSIVE FindSession(_, _)
FindSession(ss, id) ==
    IF ss = <<>> THEN <<>>
    ELSE IF Head(ss).id = id THEN <<Head(ss)>> ELSE FindSession(Tail(ss), id)

\* promptTime < earliestActionTime && earliestActionTime - promptTime < 5 min
IsRelevant(p, earliestActionTime) ==
    /\ TimeOf(p) < earliestActionTime
    /\ earliestActionTime - TimeOf(p) < RelevantWindowMs

\* only the prompts logged under the session itself taken as candidates
RelevantPrompts_OwnSessionOnly(ss, sessionEvents) ==
    LET earliestActionTime == TimeOf(sessionEvents[1])
        Test(p) == IsRelevant(p, earliestActionTime)
                      /\ \E i \in DOMAIN sessionEvents : sessionEvents[i] = p
    IN  SelectSeq(Prompts(ss), Test)

\* prompts.filter(p => ...) over the prompts of all sessions
RelevantPrompts(ss, sessionEvents) ==
    LET earliestActionTime == TimeOf(sessionEvents[1])
        Test(p) == IsRelevant(p, earliestActionTime)
    IN  SelectSeq(Prompts(ss), Test)

\* every relevant prompt pushed as a group, with or without actions
KeepGroup_Always(relatedActions, relevantPrompts) == TRUE

\* if (relatedActions.length > 0 || relevantPrompts.length === 1) push
KeepGroup(relatedActions, relevantPrompts) ==
    Len(relatedActions) > 0 \/ Len(relevantPrompts) = 1

\* the for-loop over relevantPrompts, from index i on
RECURSIVE PromptGroups(_, _, _)
PromptGroups(rps, sessionEvents, i) ==
    IF i > Len(rps) THEN <<>>
    ELSE LET related == RelatedActions(sessionEvents, TimeOf(rps[i]),
                                       NextPromptTime(rps, i))
         IN  (IF KeepGroup(related, rps)
              THEN << [prompt |-> rps[i], actions |-> related] >>
              ELSE <<>>)
             \o PromptGroups(rps, sessionEvents, i + 1)

\* selectedSession is a specific session with at least one event
SessionGroups(ss, session) ==
    LET sessionEvents == SortByTime(session.events)
        groups == PromptGroups(RelevantPrompts(ss, sessionEvents), sessionEvents, 1)
    IN  IF groups = <<>> /\ Len(sessionEvents) > 0
        THEN << [prompt |-> NullEvent, actions |-> sessionEvents] >>
        ELSE groups

\* session.events.length without the optional chaining: a TypeError when
\* find() returns undefined
WorkflowGroups_NoLookupGuard(ss, sel) ==
    IF sel = Null THEN <<>>
    ELSE IF sel = "no_session" THEN NoSessionGroups(ss)
    ELSE LET found == FindSession(ss, sel)
         IN  IF found = <<>> THEN <<"TypeError">>
             ELSE IF Len(found[1].events) = 0 THEN <<>>
             ELSE SessionGroups(ss, found[1])

WorkflowGroups(ss, sel) ==
    IF sel = Null THEN <<>>
    ELSE IF sel = "no_session" THEN NoSessionGroups(ss)
    ELSE LET found == FindSession(ss, sel)
         IN  IF found = <<>> \/ Len(found[1].events) = 0 THEN <<>>
             ELSE SessionGroups(ss, found[1])

workflowGroups == WorkflowGroups(sessions, selectedSession)

(***************************************************************************)
(* Actions of the session list                                             *)
(***************************************************************************)
\* fetchSessions resolves with a list that holds one more hook event
SessionsGrow(traj, kind, ts) ==
    /\ EventCount(sessions) < MaxEvents
    /\ sessions' = SessionAdd(sessions,
                     [event_id |-> EventCount(sessions) + 1,
                      trajectory_id |-> traj, category |-> kind[1],
                      type |-> kind[2], timestamp |-> ts])
    /\ UNCHANGED <<selectedSession, viewMode, listVars, searchVars, pickerVars>>

\* fetchSessions resolves with { sessions: [] } or without the key
\* (setSessions(data.sessions || [])), e.g. after a directory change
SessionsEmpty ==
    /\ sessions # <<>>
    /\ sessions' = <<>>
    /\ UNCHANGED <<selectedSession, viewMode, listVars, searchVars, pickerVars>>

\* fetchSessions resolves with a session object that lists no events
\* (the code reads session.events || [])
SessionsListEmptySession ==
    /\ sessions = <<>>
    /\ sessions' = << [id |-> "A", events |-> <<>>] >>
    /\ UNCHANGED <<selectedSession, viewMode, listVars, searchVars, pickerVars>>

\* onClick={() => setSelectedSession(session.id)} on a listed session
SelectSession(id) ==
    /\ \E i \in 1..Len(sessions) : sessions[i].id = id
    /\ selectedSession' = id
    /\ UNCHANGED <<sessions, viewMode, listVars, searchVars, pickerVars>>

\* useState initial values of App
InitApp ==
    /\ sessions = <<>>
    /\ selectedSession = Null
    /\ viewMode = "workflow"
    /\ logs = <<>>
    /\ filterCategory = "all"
    /\ filterUser = "all"
    /\ filterSession = "all"
    /\ searchQuery = ""
    /\ useRegex = FALSE
    /\ loading = TRUE
    /\ toasts = <<>>
    /\ timers = EmptyBag
    /\ now = 0
    /\ inflight = EmptyBag
    /\ lastRequest = MountRequest
    /\ selectedEntryIndex = -1
    /\ showFilePicker = FALSE
    /\ currentDir = InitialDir
    /\ selectedFiles = <<>>
    /\ storageSource = "local"
    /\ s3Config = InitialS3Config
    /\ azureConfig = InitialAzureConfig
    /\ credentialMode = "env"
    /\ testingConnection = FALSE
    /\ connectionStatus = Null
    /\ pending = EmptyBag
    /\ alert = Null

NextCorr ==
    \/ \E traj \in TrajectoryIds, kind \in EventKinds, ts \in Timestamps :
          SessionsGrow(traj, kind, ts)
    \/ SessionsEmpty
    \/ SessionsListEmptySession
    \/ \E id \in {"no_session", "A", "B"} : SelectSession(id)

SpecCorr == InitApp /\ [][NextCorr]_vars

(***************************************************************************)
(* Log entries of the list and metrics views                               *)
(***************************************************************************)
NoData == [file_path |-> <<>>, command_line |-> <<>>, mcp_tool_name |-> "",
           mcp_full_tool |-> "", total_lines_added |-> 0,
           total_lines_removed |-> 0]

NoEntry == [category |-> "", type |-> "", user |-> "", trajectory_id |-> "",
            timestamp |-> NoTimestamp, file_path |-> <<>>,
            command_line |-> <<>>, data |-> NoData]

\* Timestamps of log entries: Thursday 1970-01-01 10:00 and Tuesday
\* 1970-01-06 23:00 (UTC)
LogTime1 == 36000000
LogTime2 == 514800000

\* The entries a /logs/data or /logs/search response is made of.  A path
\* is its list of "/"-separated segments, a command line its list of
\* " "-separated tokens.
PromptEntry == [NoEntry EXCEPT !.category = "prompt", !.user = "u1"]
WriteEntry ==
    [NoEntry EXCEPT !.category = "file_write", !.user = "u1",
                    !.trajectory_id = "A", !.timestamp = LogTime1,
                    !.data = [NoData EXCEPT !.file_path = <<"src", "a.py">>,
                                            !.total_lines_added = 3,
                                            !.total_lines_removed = 1]]
TypeOnlyWriteEntry ==
    [NoEntry EXCEPT !.type = "file_write", !.user = "u2",
                    !.trajectory_id = "A", !.timestamp = LogTime2,
                    !.file_path = <<"lib", "b.py">>]
CommandEntry ==
    [NoEntry EXCEPT !.category = "command", !.user = "u2",
                    !.trajectory_id = "B", !.timestamp = LogTime2,
                    !.data = [NoData EXCEPT !.command_line = <<"npm", "test">>]]
McpEntry ==
    [NoEntry EXCEPT !.category = "mcp", !.timestamp = LogTime1,
                    !.data = [NoData EXCEPT !.mcp_full_tool = "srv/search"]]

\* a write to a file whose name is a number, e.g. /tmp/2
DigitWriteEntry(name) ==
    [NoEntry EXCEPT !.category = "file_write", !.user = "u1",
                    !.data = [NoData EXCEPT !.file_path = <<"tmp", name>>]]

LogPool == {PromptEntry, WriteEntry, TypeOnlyWriteEntry, CommandEntry, McpEntry, NoEntry,
            DigitWriteEntry("1"), DigitWriteEntry("2")}

FilterCategories == {"all", "prompt", "file_write", "command", "unknown"}
FilterUsers == {"all", "u1", "u2"}
FilterSessions == {"all", "A", "B"}

(***************************************************************************)
(* filteredLogs (App.jsx): logs.filter(entry => ...)                       *)
(***************************************************************************)
\* entry.category || 'unknown': the type fallback forgotten
FilterCategoryOf_NoTypeFallback(entry) ==
    IF entry.category # "" THEN entry.category ELSE "unknown"

\* entry.category || entry.type || 'unknown'
FilterCategoryOf(entry) ==
    IF entry.category # "" THEN entry.category
    ELSE IF entry.type # "" THEN entry.type
    ELSE "unknown"

\* the user predicate dropped
KeepEntry_NoUserTest(entry, fc, fu, fs) ==
    IF fc # "all" /\ FilterCategoryOf(entry) # fc THEN FALSE
    ELSE IF fs # "all" /\ entry.trajectory_id # fs THEN FALSE
    ELSE TRUE

\* the filter callback with its three early returns
KeepEntry(entry, fc, fu, fs) ==
    IF fc # "all" /\ FilterCategoryOf(entry) # fc THEN FALSE
    ELSE IF fu # "all" /\ entry.user # fu THEN FALSE
    ELSE IF fs # "all" /\ entry.trajectory_id # fs THEN FALSE
    ELSE TRUE

RECURSIVE FilteredLogs(_, _, _, _)
FilteredLogs(ls, fc, fu, fs) ==
    IF ls = <<>> THEN <<>>
    ELSE (IF KeepEntry(Head(ls), fc, fu, fs) THEN <<Head(ls)>> ELSE <<>>)
         \o FilteredLogs(Tail(ls), fc, fu, fs)

filteredLogs == FilteredLogs(logs, filterCategory, filterUser, filterSession)

(***************************************************************************)
(* MetricsDashboard metrics (useMemo over logs), revision computing the   *)
(* metrics in the browser                                                  *)
(***************************************************************************)
MsPerHour == 3600000
MsPerDay == 86400000

\* new Date(ts).getHours() and .getDay(), for a browser in UTC
HourOf(ts) == (ts \div MsPerHour) % 24
DayOf(ts) == ((ts \div MsPerDay) + 4) % 7
\* the YYYY-MM-DD prefix of an ISO timestamp, as a day number
DateOf(ts) == ts \div MsPerDay

\* Property names that are array indices ("1", "2"): an object enumerates
\* them first, in ascending numeric order, and the other string keys after
\* them in insertion order (OrdinaryOwnPropertyKeys)
IndexKeys == {"1", "2"}
IndexOf(key) == IF key = "1" THEN 1 ELSE 2

\* where a new key is enumerated among the keys the object already has
RECURSIVE InsertKey(_, _)
InsertKey(pairs, kv) ==
    IF pairs = <<>> THEN <<kv>>
    ELSE IF /\ kv[1] \in IndexKeys
            /\ (Head(pairs)[1] \notin IndexKeys \/ IndexOf(Head(pairs)[1]) > IndexOf(kv[1]))
         THEN <<kv>> \o pairs
         ELSE << Head(pairs) >> \o InsertKey(Tail(pairs), kv)

\* obj[key] = (obj[key] || 0) + 1 on an object kept as <<key, count>> pairs
\* in enumeration order (Object.entries order)
RECURSIVE Bump(_, _)
Bump(pairs, key) ==
    IF \E i \in DOMAIN pairs : pairs[i][1] = key
    THEN [i \in DOMAIN pairs |->
            IF pairs[i][1] = key THEN <<key, pairs[i][2] + 1>> ELSE pairs[i]]
    ELSE InsertKey(pairs, <<key, 1>>)

RECURSIVE Tally(_, _)
Tally(keys, pairs) ==
    IF keys = <<>> THEN pairs ELSE Tally(Tail(keys), Bump(pairs, Head(keys)))

Keys(pairs) == {pairs[i][1] : i \in DOMAIN pairs}

\* obj[key] || 0
RECURSIVE Lookup(_, _)
Lookup(pairs, key) ==
    IF pairs = <<>> THEN 0
    ELSE IF Head(pairs)[1] = key THEN Head(pairs)[2] ELSE Lookup(Tail(pairs), key)

\* .sort((a, b) => b[1] - a[1]): stable, count descending
RECURSIVE InsertByCount(_, _)
InsertByCount(sorted, kv) ==
    IF sorted = <<>> THEN <<kv>>
    ELSE IF kv[2] - Head(sorted)[2] > 0
         THEN <<kv>> \o sorted
         ELSE <<Head(sorted)>> \o InsertByCount(Tail(sorted), kv)

RECURSIVE SortByCount(_)
SortByCount(s) ==
    IF s = <<>> THEN <<>>
    ELSE InsertByCount(SortByCount(SubSeq(s, 1, Len(s) - 1)), s[Len(s)])

\* .slice(0, n)
Slice(s, n) == SubSeq(s, 1, IF Len(s) < n THEN Len(s) ELSE n)

\* total += x over a list of numbers
RECURSIVE SumSeq(_)
SumSeq(s) == IF s = <<>> THEN 0 ELSE Head(s) + SumSeq(Tail(s))

\* Math.max(...xs, 1) over the values of a function
RECURSIVE MaxOf(_, _)
MaxOf(xs, floor) ==
    IF xs = {} THEN floor
    ELSE LET x == CHOOSE y \in xs : TRUE
         IN  MaxOf(xs \ {x}, IF x > floor THEN x ELSE floor)

\* Math.round(a / b) for a >= 0, b > 0
RoundDiv(a, b) == (2 * a + b) \div (2 * b)

Last(s) == s[Len(s)]

\* l.category === k || l.type === k
IsKind(l, k) == l.category = k \/ l.type = k

\* log.data?.file_path || log.file_path || 'unknown', then split('/').pop()
FileNameOf(l) ==
    IF l.data.file_path # <<>> THEN Last(l.data.file_path)
    ELSE IF l.file_path # <<>> THEN Last(l.file_path)
    ELSE "unknown"

\* log.data?.command_line || log.command_line || 'unknown', then split(' ')[0]
CommandNameOf(l) ==
    IF l.data.command_line # <<>> THEN Head(l.data.command_line)
    ELSE IF l.command_line # <<>> THEN Head(l.command_line)
    ELSE "unknown"

\* log.data?.mcp_tool_name || log.data?.mcp_full_tool || 'unknown'
McpToolOf(l) ==
    IF l.data.mcp_tool_name # "" THEN l.data.mcp_tool_name
    ELSE IF l.data.mcp_full_tool # "" THEN l.data.mcp_full_tool
    ELSE "unknown"

\* log.category || log.type || 'unknown'
MetricCategoryOf(l) ==
    IF l.category # "" THEN l.category
    ELSE IF l.type # "" THEN l.type
    ELSE "unknown"

CategoryBreakdown(ls) == Tally([i \in 1..Len(ls) |-> MetricCategoryOf(ls[i])], <<>>)

HasTimestamp(l) == l.timestamp # NoTimestamp

HourlyActivity(ls) ==
    [h \in 0..23 |->
        Cardinality({i \in DOMAIN ls : HasTimestamp(ls[i]) /\ HourOf(ls[i].timestamp) = h})]

DailyActivity(ls) ==
    [d \in 0..6 |->
        Cardinality({i \in DOMAIN ls : HasTimestamp(ls[i]) /\ DayOf(ls[i].timestamp) = d})]

IsFileWrite(l) == IsKind(l, "file_write")
IsCommand(l) == IsKind(l, "command")
IsMcp(l) == IsKind(l, "mcp")

FileChanges(ls) ==
    LET writes == SelectSeq(ls, IsFileWrite)
    IN  Tally([i \in 1..Len(writes) |-> FileNameOf(writes[i])], <<>>)
TopFiles(ls) == Slice(SortByCount(FileChanges(ls)), 8)
TopCommands(ls) ==
    LET commands == SelectSeq(ls, IsCommand)
    IN  Slice(SortByCount(Tally([i \in 1..Len(commands) |-> CommandNameOf(commands[i])],
                                <<>>)), 6)
TopMcpTools(ls) ==
    LET calls == SelectSeq(ls, IsMcp)
    IN  Slice(SortByCount(Tally([i \in 1..Len(calls) |-> McpToolOf(calls[i])], <<>>)), 6)

\* the Set of truthy trajectory_id values
UniqueSessionIds(ls) ==
    {ls[i].trajectory_id : i \in {j \in DOMAIN ls : ls[j].trajectory_id # ""}}

\* uniqueSessionIds.size || 1
FilteredSessionCount(ls) ==
    IF Cardinality(UniqueSessionIds(ls)) # 0 THEN Cardinality(UniqueSessionIds(ls)) ELSE 1

AvgEventsPerSession(ls) ==
    IF FilteredSessionCount(ls) > 0 THEN RoundDiv(Len(ls), FilteredSessionCount(ls)) ELSE 0

TotalLinesAdded(ls) ==
    LET writes == SelectSeq(ls, IsFileWrite)
    IN  SumSeq([i \in 1..Len(writes) |-> writes[i].data.total_lines_added])
TotalLinesRemoved(ls) ==
    LET writes == SelectSeq(ls, IsFileWrite)
    IN  SumSeq([i \in 1..Len(writes) |-> writes[i].data.total_lines_removed])

\* the seven days up to now, oldest first, with the entries of each day
RecentDays(ls, nowMs) ==
    [k \in 1..7 |->
        LET date == DateOf(nowMs - (7 - k) * MsPerDay)
        IN  [date  |-> date,
             count |-> Cardinality({i \in DOMAIN ls :
                          HasTimestamp(ls[i]) /\ DateOf(ls[i].timestamp) = date})]]

Metrics(ls, nowMs) ==
    [totalEvents          |-> Len(ls),
     categoryBreakdown    |-> CategoryBreakdown(ls),
     hourlyActivity       |-> HourlyActivity(ls),
     maxHourly            |-> MaxOf({HourlyActivity(ls)[h] : h \in 0..23}, 1),
     dailyActivity        |-> DailyActivity(ls),
     maxDaily             |-> MaxOf({DailyActivity(ls)[d] : d \in 0..6}, 1),
     topFiles             |-> TopFiles(ls),
     topCommands          |-> TopCommands(ls),
     topMcpTools          |-> TopMcpTools(ls),
     avgEventsPerSession  |-> AvgEventsPerSession(ls),
     totalLinesAdded      |-> TotalLinesAdded(ls),
     totalLinesRemoved    |-> TotalLinesRemoved(ls),
     recentDays           |-> RecentDays(ls, nowMs),
     maxRecentDaily       |-> MaxOf({RecentDays(ls, nowMs)[k].count : k \in 1..7}, 1),
     uniqueFilesCount     |-> Len(FileChanges(ls)),
     filteredSessionCount |-> FilteredSessionCount(ls)]

\* percentage of a category bar, in tenths of a percent:
\* totalEvents > 0 ? (count / totalEvents * 100).toFixed(1) : 0
CategoryPercentage(count, totalEvents) ==
    IF totalEvents > 0 THEN RoundDiv(count * 1000, totalEvents) ELSE 0

\* (count / max) * 100 of the hourly, daily and recent-day bars, rounded
BarPercentage(count, maxCount) == RoundDiv(count * 100, maxCount)

(***************************************************************************)
(* MetricsDashboard over server-side metrics (latest revision)             *)
(***************************************************************************)
\* /metrics/aggregated: the totals the server computes over all entries
ServerAggregatedMetrics(ls) ==
    [total_events    |-> Len(ls),
     unique_sessions |-> Cardinality(UniqueSessionIds(ls))]

\* the weekday of a timestamp as the server counts it: 0 = Monday .. 6 = Sunday
\* (1970-01-01 was a Thursday)
ServerWeekday(ts) == ((ts \div MsPerDay) + 3) % 7

\* daily_activity of /metrics/aggregated: 7 counts, Monday first
ServerDailyActivity(ls) ==
    [k \in 1..7 |->
        Cardinality({i \in DOMAIN ls :
            HasTimestamp(ls[i]) /\ ServerWeekday(ls[i].timestamp) = k - 1})]

\* the array rotated the other way: [...serverDaily.slice(1), serverDaily[0]]
RotatedDailyActivity_Left(serverDaily) ==
    SubSeq(serverDaily, 2, 7) \o << serverDaily[1] >>

\* [serverDaily[6], ...serverDaily.slice(0, 6)]
RotatedDailyActivity(serverDaily) ==
    << serverDaily[7] >> \o SubSeq(serverDaily, 1, 6)

\* aggregatedMetrics.unique_sessions > 0
\*    ? Math.round((aggregatedMetrics.total_events || 0) / unique_sessions) : 0
AggregatedAvgEventsPerSession(aggregatedMetrics) ==
    IF aggregatedMetrics.unique_sessions > 0
    THEN RoundDiv(aggregatedMetrics.total_events, aggregatedMetrics.unique_sessions)
    ELSE 0

\* Date.now() at the time the dashboard renders
NowValues == {LogTime2, LogTime2 + MsPerDay}

(***************************************************************************)
(* Actions of the log list                                                 *)
(***************************************************************************)
\* a logs request resolves with a list that holds one more entry
LogsGrow(entry) ==
    /\ Len(logs) < MaxLogs
    /\ logs' = Append(logs, entry)
    /\ UNCHANGED <<filterCategory, filterUser, filterSession, corrVars, searchVars, pickerVars>>

\* a logs request resolves without entries (setLogs(data.entries || [])),
\* or fails (setLogs([]))
LogsEmpty ==
    /\ logs # <<>>
    /\ logs' = <<>>
    /\ UNCHANGED <<filterCategory, filterUser, filterSession, corrVars, searchVars, pickerVars>>

\* onChange of the category select
SetFilterCategory(c) ==
    /\ filterCategory' = c
    /\ UNCHANGED <<logs, filterUser, filterSession, corrVars, searchVars, pickerVars>>

\* onChange of the user select
SetFilterUser(u) ==
    /\ filterUser' = u
    /\ UNCHANGED <<logs, filterCategory, filterSession, corrVars, searchVars, pickerVars>>

\* onChange of the session select
SetFilterSession(id) ==
    /\ filterSession' = id
    /\ UNCHANGED <<logs, filterCategory, filterUser, corrVars, searchVars, pickerVars>>

NextLogs ==
    \/ \E entry \in LogPool : LogsGrow(entry)
    \/ LogsEmpty
    \/ \E c \in FilterCategories : SetFilterCategory(c)
    \/ \E u \in FilterUsers : SetFilterUser(u)
    \/ \E id \in FilterSessions : SetFilterSession(id)

SpecLogs == InitApp /\ [][NextLogs]_vars

(***************************************************************************)
(* Server side of /logs/data and /logs/search (SearchFilter) over the     *)
(* corpus of the current directory                                         *)
(***************************************************************************)
ServerCorpus == <<PromptEntry, WriteEntry, CommandEntry>>

\* the category of an event as the server derives it
CategoryOfEntry(l) ==
    IF l.category # "" THEN l.category
    ELSE IF l.type # "" THEN l.type
    ELSE "unknown"

\* The texts typed in the search box: a pattern that is a valid regular
\* expression and, as plain text, occurs in no entry; and a pattern with an
\* unbalanced parenthesis.
Queries == {"", "file_(read|write)", "file_(read"}
InvalidPatternMsg == "Invalid regex pattern"

ValidRegex(q) == q # "file_(read"

\* text or regex match against the entry's rendered summary
TextMatches(q, regex, l) ==
    CASE q = "" -> TRUE
      [] q = "file_(read|write)" /\ regex ->
            CategoryOfEntry(l) \in {"file_read", "file_write"}
      [] OTHER -> FALSE

ServerPasses(req, l) ==
    /\ req.category = "all" \/ CategoryOfEntry(l) = req.category
    /\ req.user = "all" \/ l.user = req.user
    /\ req.session = "all" \/ l.trajectory_id = req.session
    /\ TextMatches(req.q, req.regex, l)

ServerEntries(req) ==
    LET Test(l) == ServerPasses(req, l) IN SelectSeq(ServerCorpus, Test)

\* body of the response to a logs request
ServerResponse(req) ==
    IF req.kind = "search" /\ req.regex /\ ~ValidRegex(req.q)
    THEN [error |-> InvalidPatternMsg, hasEntries |-> FALSE, entries |-> <<>>]
    ELSE [error |-> "", hasEntries |-> TRUE, entries |-> ServerEntries(req)]

(***************************************************************************)
(* fetchLogs, searchLogs, addToast (revision with server-side filters)    *)
(***************************************************************************)
\* the query string fetchLogs builds: a parameter is sent only for an active
\* filter; /logs/data takes no regex flag
FetchLogsRequest ==
    [kind |-> "fetch", q |-> searchQuery, regex |-> FALSE,
     category |-> filterCategory, user |-> filterUser, session |-> filterSession]

\* the query string searchLogs builds
SearchLogsRequest ==
    [kind |-> "search", q |-> searchQuery, regex |-> useRegex,
     category |-> filterCategory, user |-> filterUser, session |-> filterSession]

RequestPool ==
    [kind : {"fetch", "search"}, q : Queries, regex : BOOLEAN,
     category : {"all"}, user : {"all"}, session : {"all"}]

\* n copies of a request
Copies(req, n) == IF n = 0 THEN EmptyBag ELSE [r \in {req} |-> n]

\* data.entries || []
EntriesOrEmpty(data) == IF data.hasEntries THEN data.entries ELSE <<>>

\* an early return after the error toast, the list left as it was
SearchResultLogs_KeepOnError(data, prev) ==
    IF data.error # "" THEN prev ELSE EntriesOrEmpty(data)

\* searchLogs: setLogs(data.entries || [])
SearchResultLogs(data, prev) == EntriesOrEmpty(data)

\* setToasts(prev => [...prev, { id, message, type }]) with id = Date.now()
AddToast(ts, message, type) == Append(ts, [id |-> now, message |-> message, type |-> type])

\* the number of fetchLogs() calls the effects make after a render in which
\* fetchLogs changed: the [fetchLogs] effect, the filter effect when a
\* filter is active, and the cleared-query effect when the query is empty
EffectFetches(q, fc, fu, fs) ==
    1 + (IF fc # "all" \/ fu # "all" \/ fs # "all" THEN 1 ELSE 0)
      + (IF q = "" THEN 1 ELSE 0)

\* onChange of the search box, and the effects that follow the render
TypeSearchQuery(q) ==
    /\ q # searchQuery
    /\ LET n == EffectFetches(q, filterCategory, filterUser, filterSession)
       IN  /\ BagCardinality(inflight) + n <= MaxInFlight
           /\ searchQuery' = q
           /\ inflight' = inflight (+) Copies([FetchLogsRequest EXCEPT !.q = q], n)
           /\ lastRequest' = [FetchLogsRequest EXCEPT !.q = q]
    /\ loading' = TRUE
    /\ UNCHANGED <<selectedEntryIndex, useRegex, toasts, timers, now, corrVars, listVars, pickerVars>>

\* onClick of the regex toggle
ToggleRegex ==
    /\ useRegex' = ~useRegex
    /\ UNCHANGED <<lastRequest, selectedEntryIndex, searchQuery, loading, toasts, timers, now, inflight,
                   corrVars, listVars, pickerVars>>

\* onClick of Search / Enter in the search box:
\* useRegex ? searchLogs() : fetchLogs()
ExecuteSearch ==
    /\ BagCardinality(inflight) < MaxInFlight
    /\ inflight' = inflight (+)
            Copies(IF useRegex THEN SearchLogsRequest ELSE FetchLogsRequest, 1)
    /\ lastRequest' = IF useRegex THEN SearchLogsRequest ELSE FetchLogsRequest
    /\ loading' = TRUE
    /\ UNCHANGED <<selectedEntryIndex, searchQuery, useRegex, toasts, timers, now, corrVars, listVars, pickerVars>>

\* fetchLogs: the response arrives
FetchLogsRespond(req) ==
    /\ req.kind = "fetch" /\ BagIn(req, inflight)
    /\ inflight' = inflight (-) Copies(req, 1)
    /\ logs' = EntriesOrEmpty(ServerResponse(req))
    /\ loading' = FALSE
    /\ UNCHANGED <<lastRequest, selectedEntryIndex, searchQuery, useRegex, toasts, timers, now, corrVars,
                   filterCategory, filterUser, filterSession, pickerVars>>

\* fetchLogs: fetch or res.json() throws
FetchLogsFail(req) ==
    /\ req.kind = "fetch" /\ BagIn(req, inflight)
    /\ inflight' = inflight (-) Copies(req, 1)
    /\ logs' = <<>>
    /\ loading' = FALSE
    /\ UNCHANGED <<lastRequest, selectedEntryIndex, searchQuery, useRegex, toasts, timers, now, corrVars,
                   filterCategory, filterUser, filterSession, pickerVars>>

\* searchLogs: the response arrives
SearchLogsRespond(req) ==
    /\ req.kind = "search" /\ BagIn(req, inflight)
    /\ LET data == ServerResponse(req)
       IN  /\ IF data.error # ""
              THEN /\ BagCardinality(timers) < MaxToasts
                   /\ toasts' = AddToast(toasts, data.error, "error")
                   /\ timers' = timers (+) Copies(now, 1)
              ELSE UNCHANGED <<toasts, timers>>
           /\ logs' = SearchResultLogs(data, logs)
    /\ inflight' = inflight (-) Copies(req, 1)
    /\ loading' = FALSE
    /\ UNCHANGED <<lastRequest, selectedEntryIndex, searchQuery, useRegex, now, corrVars,
                   filterCategory, filterUser, filterSession, pickerVars>>

\* searchLogs: fetch or res.json() throws
SearchLogsFail(req) ==
    /\ req.kind = "search" /\ BagIn(req, inflight)
    /\ BagCardinality(timers) < MaxToasts
    /\ toasts' = AddToast(toasts, "Search failed", "error")
    /\ timers' = timers (+) Copies(now, 1)
    /\ inflight' = inflight (-) Copies(req, 1)
    /\ loading' = FALSE
    /\ UNCHANGED <<lastRequest, selectedEntryIndex, searchQuery, useRegex, now, corrVars, listVars, pickerVars>>

\* only the oldest toast that carries the id removed
RECURSIVE WithoutToast_FirstOnly(_, _)
WithoutToast_FirstOnly(ts, id) ==
    IF ts = <<>> THEN <<>>
    ELSE IF Head(ts).id = id THEN Tail(ts)
    ELSE <<Head(ts)>> \o WithoutToast_FirstOnly(Tail(ts), id)

\* prev.filter(t => t.id !== id)
WithoutToast(ts, id) == LET Other(t) == t.id # id IN SelectSeq(ts, Other)

\* the setTimeout callback of addToast, 3000 ms after the toast was added
ToastTimeout(id) ==
    /\ BagIn(id, timers)
    /\ toasts' = WithoutToast(toasts, id)
    /\ timers' = timers (-) Copies(id, 1)
    /\ UNCHANGED <<lastRequest, selectedEntryIndex, searchQuery, useRegex, loading, now, inflight, corrVars, listVars, pickerVars>>

\* keydown ArrowDown with a non-empty list:
\* setSelectedEntryIndex(prev => Math.min(prev + 1, logs.length - 1))
ArrowDown ==
    /\ Len(logs) > 0
    /\ selectedEntryIndex' = IF selectedEntryIndex + 1 < Len(logs) - 1
                             THEN selectedEntryIndex + 1 ELSE Len(logs) - 1
    /\ UNCHANGED <<searchQuery, useRegex, loading, toasts, timers, now, inflight,
                   lastRequest, corrVars, listVars, pickerVars>>

\* keydown ArrowUp with a non-empty list:
\* setSelectedEntryIndex(prev => Math.max(prev - 1, 0))
ArrowUp ==
    /\ Len(logs) > 0
    /\ selectedEntryIndex' = IF selectedEntryIndex - 1 > 0
                             THEN selectedEntryIndex - 1 ELSE 0
    /\ UNCHANGED <<searchQuery, useRegex, loading, toasts, timers, now, inflight,
                   lastRequest, corrVars, listVars, pickerVars>>

\* a millisecond passes
Tick ==
    /\ now < MaxNow
    /\ now' = now + 1
    /\ UNCHANGED <<lastRequest, selectedEntryIndex, searchQuery, useRegex, loading, toasts, timers, inflight,
                   corrVars, listVars, pickerVars>>

\* App after mount: the [fetchLogs] effect and the cleared-query effect have
\* each called fetchLogs()
InitSearch ==
    /\ sessions = <<>>
    /\ selectedSession = Null
    /\ viewMode = "workflow"
    /\ logs = <<>>
    /\ filterCategory = "all"
    /\ filterUser = "all"
    /\ filterSession = "all"
    /\ searchQuery = ""
    /\ useRegex = FALSE
    /\ loading = TRUE
    /\ toasts = <<>>
    /\ timers = EmptyBag
    /\ now = 0
    /\ inflight = Copies(MountRequest, EffectFetches("", "all", "all", "all"))
    /\ lastRequest = MountRequest
    /\ selectedEntryIndex = -1
    /\ showFilePicker = FALSE
    /\ currentDir = InitialDir
    /\ selectedFiles = <<>>
    /\ storageSource = "local"
    /\ s3Config = InitialS3Config
    /\ azureConfig = InitialAzureConfig
    /\ credentialMode = "env"
    /\ testingConnection = FALSE
    /\ connectionStatus = Null
    /\ pending = EmptyBag
    /\ alert = Null

NextSearch ==
    \/ \E q \in Queries : TypeSearchQuery(q)
    \/ ToggleRegex
    \/ ExecuteSearch
    \/ \E req \in RequestPool : FetchLogsRespond(req)
    \/ \E req \in RequestPool : FetchLogsFail(req)
    \/ \E req \in RequestPool : SearchLogsRespond(req)
    \/ \E req \in RequestPool : SearchLogsFail(req)
    \/ \E id \in 0..MaxNow : ToastTimeout(id)
    \/ ArrowDown
    \/ ArrowUp
    \/ Tick

SpecSearch == InitSearch /\ [][NextSearch]_vars

\* the event loop runs every timer callback that is due: a timer set by
\* addToast is never cleared
SpecSearchFair ==
    SpecSearch /\ \A id \in 0..MaxNow : WF_vars(ToastTimeout(id))

(***************************************************************************)
(* DirectoryPicker and the directory state of App                          *)
(***************************************************************************)
LocalDirs == {InitialDir, "/archive"}      \* paths browsed to in the picker
Buckets == {"", "b"}
AccessKeyIds == {"", "AKIA"}
SecretKeys == {"", "s3cret"}
AccountNames == {"", "acct"}
Containers == {"", "c"}
AccountKeys == {"", "k3y"}
SecretFields == {"access_key_id", "secret_access_key", "account_key"}

Outcomes == {"success", "failure", "throws"}
ConfigureFailedMsg == "Failed to configure storage: Unknown error"
ConfigureThrewMsg == "Failed to configure storage. Please check your settings."

NoFields == [k \in {} |-> ""]

StorageConfig_IgnoresMode(source, s3, azure, mode) ==
    IF source = "s3"
    THEN ("type" :> "s3" @@ "bucket" :> s3.bucket @@ "prefix" :> s3.prefix
            @@ "region" :> s3.region)
         @@ (IF s3.accessKeyId # ""
             THEN ("access_key_id" :> s3.accessKeyId
                     @@ "secret_access_key" :> s3.secretAccessKey)
             ELSE NoFields)
    ELSE ("type" :> "azure" @@ "account_name" :> azure.accountName
            @@ "container" :> azure.container @@ "path" :> azure.path)
         @@ (IF azure.accountKey # ""
             THEN "account_key" :> azure.accountKey
             ELSE NoFields)

\* the config object both storage buttons build
StorageConfig(source, s3, azure, mode) ==
    IF source = "s3"
    THEN ("type" :> "s3" @@ "bucket" :> s3.bucket @@ "prefix" :> s3.prefix
            @@ "region" :> s3.region)
         @@ (IF mode = "manual" /\ s3.accessKeyId # ""
             THEN ("access_key_id" :> s3.accessKeyId
                     @@ "secret_access_key" :> s3.secretAccessKey)
             ELSE NoFields)
    ELSE ("type" :> "azure" @@ "account_name" :> azure.accountName
            @@ "container" :> azure.container @@ "path" :> azure.path)
         @@ (IF mode = "manual" /\ azure.accountKey # ""
             THEN "account_key" :> azure.accountKey
             ELSE NoFields)

\* s3://bucket/prefix or azure://account/container/path
StorageUri(source, s3, azure) ==
    IF source = "s3"
    THEN "s3://" \o s3.bucket \o "/" \o s3.prefix
    ELSE "azure://" \o azure.accountName \o "/" \o azure.container \o "/" \o azure.path

\* disabled= of the two storage buttons
TargetMissing ==
    \/ storageSource = "s3" /\ s3Config.bucket = ""
    \/ storageSource = "azure" /\ (azureConfig.accountName = "" \/ azureConfig.container = "")

\* the requests whose callbacks outlive the picker: a /storage/test callback
\* only sets state of the picker that issued it
OutlivePicker(requests) ==
    [r \in {q \in DOMAIN requests : q.endpoint # "test"} |-> requests[r]]

\* the picker unmounts (showFilePicker && <DirectoryPicker/>): its state is
\* gone, the next mount starts from the useState initial values
PickerUnmounted(requests) ==
    /\ storageSource' = "local"
    /\ s3Config' = InitialS3Config
    /\ azureConfig' = InitialAzureConfig
    /\ credentialMode' = "env"
    /\ testingConnection' = FALSE
    /\ connectionStatus' = Null
    /\ pending' = OutlivePicker(requests)

ConnectOutcomeSelects_Always(outcome) == TRUE

\* try { if (data.success) onSelect(storageUri) else alert(...) } catch { alert(...) }
ConnectOutcomeSelects(outcome) == outcome = "success"

\* what the secret inputs hold when a storage button is clicked
SecretsTyped ==
    IF storageSource = "s3"
    THEN s3Config.accessKeyId # "" /\ s3Config.secretAccessKey # ""
    ELSE azureConfig.accountKey # ""

\* fetch(`${API_BASE}/storage/...`, {method: 'POST', body: JSON.stringify(config)})
StorageRequest(endpoint) ==
    [endpoint |-> endpoint,
     body |-> StorageConfig(storageSource, s3Config, azureConfig, credentialMode),
     uri |-> IF endpoint = "configure"
             THEN StorageUri(storageSource, s3Config, azureConfig) ELSE "",
     mode |-> credentialMode,
     typed |-> SecretsTyped]

\* window.alert is modal: no handler of the page runs until it is dismissed
PageResponsive == alert = Null

\* onSelect of App
OnSelect(dir) ==
    /\ currentDir' = dir
    /\ selectedFiles' = <<>>
    /\ showFilePicker' = FALSE

\* onClick of the folder button
OpenPicker ==
    /\ PageResponsive
    /\ ~showFilePicker
    /\ showFilePicker' = TRUE
    /\ UNCHANGED <<currentDir, selectedFiles,
                   pickerState, pending, alert, corrVars, listVars, searchVars>>

\* onClose (Cancel, the X button, Escape)
ClosePicker ==
    /\ PageResponsive
    /\ showFilePicker
    /\ showFilePicker' = FALSE
    /\ PickerUnmounted(pending)
    /\ UNCHANGED <<currentDir, selectedFiles,
                   alert, corrVars, listVars, searchVars>>

\* onClick of a storage source tab
SetStorageSource(source) ==
    /\ PageResponsive
    /\ showFilePicker
    /\ storageSource' = source
    /\ UNCHANGED <<appDirVars, s3Config, azureConfig, credentialMode,
                   testingConnection, connectionStatus, pending,
                   alert, corrVars, listVars, searchVars>>

\* onClick of the credential mode toggle
SetCredentialMode(mode) ==
    /\ PageResponsive
    /\ showFilePicker /\ storageSource # "local"
    /\ credentialMode' = mode
    /\ UNCHANGED <<appDirVars, storageSource, s3Config, azureConfig,
                   testingConnection, connectionStatus, pending,
                   alert, corrVars, listVars, searchVars>>

\* onChange of the S3 inputs; the key inputs are rendered in manual mode only
TypeS3Config(field, value) ==
    /\ PageResponsive
    /\ showFilePicker /\ storageSource = "s3"
    /\ field \in {"accessKeyId", "secretAccessKey"} => credentialMode = "manual"
    /\ s3Config[field] # value
    /\ s3Config' = [s3Config EXCEPT ![field] = value]
    /\ UNCHANGED <<appDirVars, storageSource, azureConfig, credentialMode,
                   testingConnection, connectionStatus, pending,
                   alert, corrVars, listVars, searchVars>>

\* onChange of the Azure inputs; the key input is rendered in manual mode only
TypeAzureConfig(field, value) ==
    /\ PageResponsive
    /\ showFilePicker /\ storageSource = "azure"
    /\ field = "accountKey" => credentialMode = "manual"
    /\ azureConfig[field] # value
    /\ azureConfig' = [azureConfig EXCEPT ![field] = value]
    /\ UNCHANGED <<appDirVars, storageSource, s3Config, credentialMode,
                   testingConnection, connectionStatus, pending,
                   alert, corrVars, listVars, searchVars>>

\* onClick of Test Connection
TestConnection ==
    /\ PageResponsive
    /\ showFilePicker
    /\ storageSource # "local" /\ ~testingConnection /\ ~TargetMissing
    /\ testingConnection' = TRUE
    /\ connectionStatus' = Null
    /\ pending' = pending (+) SetToBag({StorageRequest("test")})
    /\ UNCHANGED <<appDirVars, storageSource, s3Config, azureConfig, credentialMode,
                   alert, corrVars, listVars, searchVars>>

\* /storage/test settles: success, success = false, or a thrown fetch
TestConnectionSettled(req, outcome) ==
    /\ PageResponsive
    /\ req.endpoint = "test" /\ BagIn(req, pending)
    /\ pending' = pending (-) SetToBag({req})
    /\ connectionStatus' = IF outcome = "success" THEN "success" ELSE "error"
    /\ testingConnection' = FALSE
    /\ UNCHANGED <<appDirVars, storageSource, s3Config, azureConfig, credentialMode,
                   alert, corrVars, listVars, searchVars>>

\* onClick of Connect & Use Storage
ConnectStorage ==
    /\ PageResponsive
    /\ showFilePicker
    /\ storageSource # "local" /\ ~TargetMissing
    /\ BagCardinality(OutlivePicker(pending)) < MaxPending
    /\ pending' = pending (+) SetToBag({StorageRequest("configure")})
    /\ UNCHANGED <<appDirVars, pickerState, alert, corrVars, listVars, searchVars>>

\* /storage/configure settles: success, success = false, or a thrown fetch
ConfigureSettled(req, outcome) ==
    /\ PageResponsive
    /\ req.endpoint = "configure" /\ BagIn(req, pending)
    /\ IF ConnectOutcomeSelects(outcome)
       THEN /\ OnSelect(req.uri)
            /\ PickerUnmounted(pending (-) SetToBag({req}))
            /\ UNCHANGED alert
       ELSE /\ pending' = pending (-) SetToBag({req})
            /\ alert' = IF outcome = "throws" THEN ConfigureThrewMsg ELSE ConfigureFailedMsg
            /\ UNCHANGED <<appDirVars, pickerState>>
    /\ UNCHANGED <<corrVars, listVars, searchVars>>

\* the user dismisses the alert dialog
DismissAlert ==
    /\ alert # Null
    /\ alert' = Null
    /\ UNCHANGED <<appDirVars, pickerState, pending, corrVars, listVars, searchVars>>

\* onClick of Select Directory: onSelect(path)
SelectLocalDir(dir) ==
    /\ PageResponsive
    /\ showFilePicker /\ storageSource = "local"
    /\ OnSelect(dir)
    /\ PickerUnmounted(pending)
    /\ UNCHANGED <<alert, corrVars, listVars, searchVars>>

\* toggleFileSelection on the one log file of the directory
ToggleFile ==
    /\ PageResponsive
    /\ selectedFiles' = IF selectedFiles = <<>> THEN <<"hooks.jsonl">> ELSE <<>>
    /\ UNCHANGED <<showFilePicker, currentDir,
                   pickerState, pending, alert, corrVars, listVars, searchVars>>

NextPicker ==
    \/ OpenPicker
    \/ ClosePicker
    \/ \E source \in {"local", "s3", "azure"} : SetStorageSource(source)
    \/ \E mode \in {"env", "manual"} : SetCredentialMode(mode)
    \/ \E value \in Buckets : TypeS3Config("bucket", value)
    \/ \E value \in AccessKeyIds : TypeS3Config("accessKeyId", value)
    \/ \E value \in SecretKeys : TypeS3Config("secretAccessKey", value)
    \/ \E value \in AccountNames : TypeAzureConfig("accountName", value)
    \/ \E value \in Containers : TypeAzureConfig("container", value)
    \/ \E value \in AccountKeys : TypeAzureConfig("accountKey", value)
    \/ TestConnection
    \/ \E req \in DOMAIN pending, outcome \in Outcomes : TestConnectionSettled(req, outcome)
    \/ ConnectStorage
    \/ \E req \in DOMAIN pending, outcome \in Outcomes : ConfigureSettled(req, outcome)
    \/ DismissAlert
    \/ \E dir \in LocalDirs : SelectLocalDir(dir)
    \/ ToggleFile

SpecPicker == InitApp /\ [][NextPicker]_vars

(***************************************************************************)
(* The session list of App: fetchSessions, the sidebar, the view buttons   *)
(* and the auto-select effect                                              *)
(***************************************************************************)
ViewModes == {"workflow", "timeline", "list", "metrics"}

\* the session list the server builds from a sequence of hook events
RECURSIVE SessionsOf(_)
SessionsOf(es) ==
    IF es = <<>> THEN <<>> ELSE SessionAdd(SessionsOf(SubSeq(es, 1, Len(es) - 1)), es[Len(es)])

HookEvent(n, traj, kind, ts) ==
    [event_id |-> n, trajectory_id |-> traj, category |-> kind[1],
     type |-> kind[2], timestamp |-> ts]

\* the answers of /logs/sessions for a directory, at different moments of its
\* log: the initial directory holds a session without prompts, then one with
\* a prompt, then a prompt logged without a session; the archive is empty or
\* holds one session without prompts and one with a prompt
ServerSessionLists(dir) ==
    LET w1 == HookEvent(1, "B", <<"", "file_write">>, 900000)
        p2 == HookEvent(2, "A", <<"prompt", "">>, 1140000)
        p3 == HookEvent(3, "", <<"prompt", "">>, 1440000)
        w4 == HookEvent(1, "A", <<"", "file_write">>, 900000)
        p5 == HookEvent(2, "B", <<"prompt", "">>, 1140000)
    IN  IF dir = InitialDir
        THEN {SessionsOf(<<w1>>), SessionsOf(<<w1, p2>>), SessionsOf(<<w1, p2, p3>>)}
        ELSE {<<>>, SessionsOf(<<w4, p5>>)}

\* session.categories?.prompt || 0 of the session summary
PromptCount(s) == Cardinality({i \in DOMAIN s.events : IsPrompt(s.events[i])})

RECURSIVE InsertByPrompts(_, _)
InsertByPrompts(sorted, s) ==
    IF sorted = <<>> THEN <<s>>
    ELSE IF PromptCount(Head(sorted)) >= PromptCount(s)
         THEN <<Head(sorted)>> \o InsertByPrompts(Tail(sorted), s)
         ELSE <<s>> \o sorted

\* sessions.sort((a, b) => (b.categories?.prompt || 0) - (a.categories?.prompt || 0)):
\* a stable sort, in place
RECURSIVE SortByPrompts(_)
SortByPrompts(ss) ==
    IF ss = <<>> THEN <<>>
    ELSE InsertByPrompts(SortByPrompts(SubSeq(ss, 1, Len(ss) - 1)), ss[Len(ss)])

\* the log of a directory only grows: an answer for the directory whose
\* sessions are shown holds at least the events shown
LogGrows(list) ==
    \A shown \in ServerSessionLists(currentDir) :
        (sessions = shown \/ sessions = SortByPrompts(shown))
            => EventCount(list) >= EventCount(shown)

\* the sidebar of the workflow view sorts the array held in the state
Rendered(ss, vm) ==
    IF vm = "workflow" /\ Len(ss) > 0 THEN SortByPrompts(ss) ELSE ss

\* sessions.find(s => s.categories?.prompt > 0), <<>> for undefined
RECURSIVE FindWithPrompts(_)
FindWithPrompts(ss) ==
    IF ss = <<>> THEN <<>>
    ELSE IF PromptCount(Head(ss)) > 0 THEN <<Head(ss)>> ELSE FindWithPrompts(Tail(ss))

\* the auto-select effect on [viewMode, sessions, selectedSession]
AutoSelect(ss, sel, vm) ==
    IF vm = "workflow" /\ sel = Null /\ Len(ss) > 0
    THEN LET Test(s) == s.id = "no_session" /\ PromptCount(s) > 0
             noSession == SelectSeq(ss, Test)
             sessionWithPrompts == FindWithPrompts(ss)
         IN  IF noSession # <<>> THEN noSession[1].id
             ELSE IF sessionWithPrompts # <<>> THEN sessionWithPrompts[1].id
             ELSE sel
    ELSE sel

\* fetchSessions resolves (after mount, a directory change or a refresh):
\* setSessions(data.sessions || []), the render and the effect
FetchSessionsRespond(list) ==
    /\ list \in ServerSessionLists(currentDir)
    /\ LogGrows(list)
    /\ sessions' = Rendered(list, viewMode)
    /\ selectedSession' = AutoSelect(sessions', selectedSession, viewMode)
    /\ UNCHANGED <<viewMode, listVars, searchVars, pickerVars>>

\* onClick of a view button, the render and the effect
SetViewMode(vm) ==
    /\ vm # viewMode
    /\ viewMode' = vm
    /\ sessions' = Rendered(sessions, vm)
    /\ selectedSession' = AutoSelect(sessions', selectedSession, vm)
    /\ UNCHANGED <<listVars, searchVars, pickerVars>>

\* onClick of a session button of the sidebar, shown in the workflow view
ClickSession(id) ==
    /\ viewMode = "workflow"
    /\ SelectSession(id)

NextSessions ==
    \/ \E dir \in LocalDirs : \E list \in ServerSessionLists(dir) : FetchSessionsRespond(list)
    \/ \E vm \in ViewModes : SetViewMode(vm)
    \/ \E id \in {"no_session", "A", "B"} : ClickSession(id)
    \/ OpenPicker
    \/ \E dir \in LocalDirs : SelectLocalDir(dir)

SpecSessions == InitApp /\ [][NextSessions]_vars

(***************************************************************************)
(* Properties of the correlation                                           *)
(***************************************************************************)
Range(s) == {s[i] : i \in DOMAIN s}

GroupsHolding(e) == {i \in DOMAIN workflowGroups : e \in Range(workflowGroups[i].actions)}

HasSession(id) == \E i \in DOMAIN sessions : sessions[i].id = id

\* C1: with target "no_session" and at least one prompt in the corpus, every
\* non-prompt event lies in the actions of exactly one group.
C1_TotalCoverage ==
    (selectedSession = "no_session" /\ Len(Prompts(sessions)) > 0)
        => \A a \in Range(Actions(sessions)) : Cardinality(GroupsHolding(a)) = 1

\* C2: for either target kind, no event occurs in the actions of two
\* different groups of one correlation pass.
C2_ActionsDisjoint ==
    \A i, j \in DOMAIN workflowGroups :
        i # j => Range(workflowGroups[i].actions) \cap Range(workflowGroups[j].actions) = {}

\* C2 witness: "no_session" view, two prompts with the same timestamp, and an
\* action owned by a group.
C2_Witness ==
    /\ selectedSession = "no_session"
    /\ \E i, j \in DOMAIN workflowGroups :
          /\ i # j
          /\ TimeOf(workflowGroups[i].prompt) = TimeOf(workflowGroups[j].prompt)
          /\ workflowGroups[j].actions # <<>>

\* C3 as stated: no selection, an empty session list, an id that matches no
\* session, or a matched session without events, give the empty list.
C3_EmptyWhenNoMatch ==
    (\/ selectedSession = Null
     \/ sessions = <<>>
     \/ ~HasSession(selectedSession)
     \/ \E i \in DOMAIN sessions :
            sessions[i].id = selectedSession /\ sessions[i].events = <<>>)
        => workflowGroups = <<>>

\* C3 amended: the same, for a selected id other than "no_session"; the
\* "no_session" view is empty exactly when the corpus holds no prompt, so it
\* is empty for an empty session list too.
C3_EmptyWhenNoMatchAmended ==
    /\ (\/ selectedSession = Null
         \/ sessions = <<>>
         \/ (selectedSession # "no_session" /\ ~HasSession(selectedSession))
         \/ (/\ selectedSession # "no_session"
             /\ \E i \in DOMAIN sessions :
                    sessions[i].id = selectedSession /\ sessions[i].events = <<>>))
          => workflowGroups = <<>>
    /\ selectedSession = "no_session"
          => (workflowGroups = <<>> <=> Prompts(sessions) = <<>>)

\* C3 witness: a session id stays selected while the refreshed session list
\* no longer holds it (and holds other sessions).
C3_Witness ==
    /\ selectedSession \notin {Null, "no_session"}
    /\ sessions # <<>>
    /\ ~HasSession(selectedSession)
    /\ workflowGroups = <<>>

\* C4: for either target kind, no prompt event is among a group's actions.
C4_ActionsAreNotPrompts ==
    \A i \in DOMAIN workflowGroups :
        \A a \in Range(workflowGroups[i].actions) : ~IsPrompt(a)

(***************************************************************************)
(* Properties of the metrics and of the list filter                        *)
(***************************************************************************)
\* an event's category: category, else type, else 'unknown'
CategoryOfEvent(l) ==
    CASE l.category # "" -> l.category
      [] l.category = "" /\ l.type # "" -> l.type
      [] OTHER -> "unknown"

\* C5: the metrics of an empty event set are all zero: category counts, the
\* 24 hourly and 7 day-of-week buckets, the recent-day counts, the top-N
\* lists (empty), the added and removed line totals and the distinct
\* session count.
C5_EmptyMetricsAllZero ==
    logs = <<>> =>
        \A nowMs \in NowValues :
            LET m == Metrics(logs, nowMs)
            IN  /\ m.totalEvents = 0
                /\ \A c \in FilterCategories : Lookup(m.categoryBreakdown, c) = 0
                /\ \A h \in 0..23 : m.hourlyActivity[h] = 0
                /\ \A d \in 0..6 : m.dailyActivity[d] = 0
                /\ \A k \in 1..7 : m.recentDays[k].count = 0
                /\ m.topFiles = <<>> /\ m.topCommands = <<>> /\ m.topMcpTools = <<>>
                /\ m.totalLinesAdded = 0 /\ m.totalLinesRemoved = 0
                /\ m.filteredSessionCount = 0

\* C6: with only the category filter active (category = X), the category
\* counts of the filtered list have no key but X, and the count of X is the
\* number of events of category X in the unfiltered list.
C6_CategoryRoundTrip ==
    (filterCategory # "all" /\ filterUser = "all" /\ filterSession = "all") =>
        LET breakdown == CategoryBreakdown(filteredLogs)
            original == Cardinality({i \in DOMAIN logs :
                                        CategoryOfEvent(logs[i]) = filterCategory})
        IN  /\ Keys(breakdown) \subseteq {filterCategory}
            /\ Lookup(breakdown, filterCategory) = original
            /\ original > 0 => Keys(breakdown) = {filterCategory}

\* C6 witness: filtering by file_write keeps a record that carries only a
\* type and removes an entry of another category.
C6_Witness ==
    /\ filterCategory = "file_write" /\ filterUser = "all" /\ filterSession = "all"
    /\ \E i \in DOMAIN filteredLogs :
          filteredLogs[i].category = "" /\ filteredLogs[i].type = "file_write"
    /\ Len(filteredLogs) < Len(logs)

PassesFilters(l) ==
    /\ filterCategory = "all" \/ CategoryOfEvent(l) = filterCategory
    /\ filterUser = "all" \/ l.user = filterUser
    /\ filterSession = "all" \/ l.trajectory_id = filterSession

HasToast(ts, message) ==
    \E i \in DOMAIN ts : ts[i].message = message /\ ts[i].type = "error"

\* C8: when the answer to a regex search with an invalid pattern is handled,
\* an error toast is added and the entry list becomes empty; handling the
\* outcome of a plain-text search (fetchLogs) adds no toast, and a
\* plain-text search without a match leaves the empty list.
C8_InvalidRegexSurfaced ==
    [][\A req \in RequestPool :
          /\ (SearchLogsRespond(req) /\ req.regex /\ ~ValidRegex(req.q))
                => /\ logs' = <<>>
                   /\ Len(toasts') = Len(toasts) + 1
                   /\ HasToast(toasts', InvalidPatternMsg)
          /\ (FetchLogsRespond(req) \/ FetchLogsFail(req)) => toasts' = toasts
          /\ (FetchLogsRespond(req) /\ \A i \in DOMAIN ServerCorpus :
                                          ~TextMatches(req.q, FALSE, ServerCorpus[i]))
                => logs' = <<>>
      ]_vars

\* C8 witness: the invalid-pattern toast is shown, no entry is listed and no
\* request is pending.
C8_Witness ==
    /\ HasToast(toasts, InvalidPatternMsg)
    /\ logs = <<>>
    /\ useRegex /\ searchQuery = "file_(read"
    /\ inflight = EmptyBag

(***************************************************************************)
(* Properties of the storage picker                                        *)
(***************************************************************************)
\* the requests a step sends
Sent(before, after) ==
    {r \in DOMAIN after : CopiesIn(r, after) > CopiesIn(r, before)}

\* the config a request carries when nothing but the storage target is known
TargetOnlyBody(source, s3, azure) ==
    IF source = "s3"
    THEN [type |-> "s3", bucket |-> s3.bucket, prefix |-> s3.prefix, region |-> s3.region]
    ELSE [type |-> "azure", account_name |-> azure.accountName,
          container |-> azure.container, path |-> azure.path]

\* C9: while the credential mode is 'env', the config sent by Test
\* Connection and by Connect & Use Storage carries none of access_key_id,
\* secret_access_key, account_key, and is determined by the storage target
\* alone: whatever was typed in the secret fields, the request is the same.
C9_EnvModeSendsNoSecrets ==
    [][\A r \in Sent(pending, pending') :
          credentialMode = "env" =>
             /\ DOMAIN r.body \cap SecretFields = {}
             /\ r.body = TargetOnlyBody(storageSource, s3Config, azureConfig)
      ]_vars

\* both buttons have sent a request in 'env' mode with secrets typed in the
\* manual fields
C9_Witness ==
    /\ \E r \in DOMAIN pending : r.endpoint = "test" /\ r.mode = "env" /\ r.typed
    /\ \E r \in DOMAIN pending : r.endpoint = "configure" /\ r.mode = "env" /\ r.typed

\* C10: when /storage/configure answers success = false or the request
\* throws, onSelect is not called: the current directory, the selected
\* files, the loaded sessions and logs and the picker (still open, with what
\* was typed) are unchanged, and an alert is shown; the current directory
\* becomes a storage URI only in the step that handles a successful configure.
C10_ConfigureFailureSurfaced ==
    [][/\ \A req \in DOMAIN pending :
             (ConfigureSettled(req, "failure") \/ ConfigureSettled(req, "throws"))
                => /\ UNCHANGED <<showFilePicker, currentDir, selectedFiles,
                                  pickerState, sessions, selectedSession, logs>>
                   /\ alert' \in {ConfigureFailedMsg, ConfigureThrewMsg}
       /\ (currentDir' # currentDir /\ currentDir' \notin LocalDirs)
             => \E req \in DOMAIN pending :
                   /\ ConfigureSettled(req, "success")
                   /\ currentDir' = req.uri
      ]_vars

\* a configure request has just failed: the alert is up, the picker is still
\* open on the cloud tab and the file selection is still there
C10_Witness ==
    /\ alert # Null
    /\ showFilePicker /\ storageSource # "local"
    /\ selectedFiles # <<>>
    /\ currentDir = InitialDir

(***************************************************************************)
(* Properties of the metrics (continued)                                   *)
(***************************************************************************)
\* the file_write events of the list whose path has the given basename
WritesTo(ls, name) == {i \in DOMAIN ls : IsFileWrite(ls[i]) /\ FileNameOf(ls[i]) = name}

\* the position of the first write to a file
FirstSeen(ls, name) == CHOOSE i \in WritesTo(ls, name) : \A j \in WritesTo(ls, name) : i <= j

WrittenNames(ls) == {FileNameOf(ls[i]) : i \in {j \in DOMAIN ls : IsFileWrite(ls[j])}}

\* C11: topFiles lists at most 8 (basename, count) pairs, each count being
\* the number of file_write events to that basename, every written file
\* being listed while there are at most 8 of them, ordered by count
\* descending with files of equal count in first-seen order.
C11_TopFilesOrdered ==
    LET tf == TopFiles(logs)
    IN  /\ Len(tf) <= 8
        /\ \A i \in DOMAIN tf : tf[i][2] = Cardinality(WritesTo(logs, tf[i][1]))
        /\ \A i, j \in DOMAIN tf : i # j => tf[i][1] # tf[j][1]
        /\ Cardinality(WrittenNames(logs)) <= 8
              => {tf[i][1] : i \in DOMAIN tf} = WrittenNames(logs)
        /\ \A i, j \in DOMAIN tf :
              i < j => \/ tf[i][2] > tf[j][2]
                       \/ /\ tf[i][2] = tf[j][2]
                          /\ FirstSeen(logs, tf[i][1]) < FirstSeen(logs, tf[j][1])

\* C20: no metric divides by zero: the divisors of the average events per
\* session and of the hourly, daily and recent-day bars are at least 1, the
\* category percentage is not divided when there is no event, and in both
\* revisions of the dashboard the average events per session is
\* round(total_events / max(session_count, 1)).
C20_NoDivisionByZero ==
    \A nowMs \in NowValues :
        LET m == Metrics(logs, nowMs)
            sessionCount == Cardinality(UniqueSessionIds(logs))
            expected == RoundDiv(Len(logs), IF sessionCount > 1 THEN sessionCount ELSE 1)
        IN  /\ m.filteredSessionCount >= 1
            /\ m.maxHourly >= 1 /\ m.maxDaily >= 1 /\ m.maxRecentDaily >= 1
            /\ \A h \in 0..23 : BarPercentage(m.hourlyActivity[h], m.maxHourly) \in 0..100
            /\ \A d \in 0..6 : BarPercentage(m.dailyActivity[d], m.maxDaily) \in 0..100
            /\ \A k \in 1..7 : BarPercentage(m.recentDays[k].count, m.maxRecentDaily) \in 0..100
            /\ \A i \in DOMAIN m.categoryBreakdown :
                  CategoryPercentage(m.categoryBreakdown[i][2], m.totalEvents) \in 0..1000
            /\ CategoryPercentage(0, 0) = 0
            /\ m.avgEventsPerSession = expected
            /\ AggregatedAvgEventsPerSession(ServerAggregatedMetrics(logs)) = expected

(***************************************************************************)
(* Properties of the correlation (continued)                               *)
(***************************************************************************)
\* the groups of the three kinds of target over the current session list
GroupsFor(id) == WorkflowGroups(sessions, id)

\* the time an event is ordered by: its timestamp, 0 when it has none
OrderTime(e) == IF e.timestamp = NoTimestamp THEN 0 ELSE e.timestamp

\* the position of an event in the input of the correlation
InputPosition(e) ==
    CHOOSE i \in DOMAIN AllEvents(sessions) : AllEvents(sessions)[i] = e

\* C12: with target "no_session", prompt i owns exactly the actions a with
\* time(prompt i) <= time(a) < time(prompt i+1), the last prompt owning
\* every action from its timestamp onward.
C12_WindowClosedOnLeft ==
    selectedSession = "no_session" =>
        LET ps == Prompts(sessions)
        IN  \A i \in DOMAIN workflowGroups :
               \A a \in Range(Actions(sessions)) :
                  a \in Range(workflowGroups[i].actions)
                     <=> /\ OrderTime(ps[i]) <= OrderTime(a)
                         /\ i < Len(ps) => OrderTime(a) < OrderTime(ps[i + 1])

\* C13: with target "no_session" there is exactly one group per prompt of
\* the corpus, whatever session the prompt was logged under and whether or
\* not it owns an action, and a group holds every action of any session
\* that lies strictly between its prompt and the prompt of the next group.
C13_OneGroupPerPrompt ==
    selectedSession = "no_session" =>
        LET gs == workflowGroups
            corpusPrompts == {e \in Range(AllEvents(sessions)) : IsPrompt(e)}
        IN  /\ Len(gs) = Cardinality(corpusPrompts)
            /\ {gs[i].prompt : i \in DOMAIN gs} = corpusPrompts
            /\ \A i \in DOMAIN gs :
                  \A a \in Range(AllEvents(sessions)) :
                     (/\ ~IsPrompt(a)
                      /\ OrderTime(gs[i].prompt) < OrderTime(a)
                      /\ i < Len(gs) => OrderTime(a) < OrderTime(gs[i + 1].prompt))
                        => a \in Range(gs[i].actions)

\* a prompt logged under session B owns no action, and a prompt logged
\* without a session owns an action of session A
C13_Witness ==
    /\ selectedSession = "no_session"
    /\ \E i, j \in DOMAIN workflowGroups :
          /\ workflowGroups[i].prompt.trajectory_id = "B"
          /\ workflowGroups[i].actions = <<>>
          /\ workflowGroups[j].prompt.trajectory_id = ""
          /\ \E a \in Range(workflowGroups[j].actions) : a.trajectory_id = "A"

\* C14: for either target kind, groups come in non-decreasing order of their
\* prompt's timestamp, prompts of equal timestamp in input order; a group
\* without a prompt is the only group of its result.
C14_GroupsChronological ==
    LET gs == workflowGroups
    IN  /\ (\E i \in DOMAIN gs : gs[i].prompt = NullEvent) => Len(gs) = 1
        /\ \A i, j \in DOMAIN gs :
              i < j =>
                 \/ OrderTime(gs[i].prompt) < OrderTime(gs[j].prompt)
                 \/ /\ OrderTime(gs[i].prompt) = OrderTime(gs[j].prompt)
                    /\ InputPosition(gs[i].prompt) < InputPosition(gs[j].prompt)

\* three groups: the first anchored by the prompt that came last in the
\* input, the other two by prompts of equal timestamp
C14_Witness ==
    /\ Len(workflowGroups) = 3
    /\ InputPosition(workflowGroups[1].prompt) = 3
    /\ OrderTime(workflowGroups[2].prompt) = OrderTime(workflowGroups[3].prompt)

\* C15: for either target kind, the actions of a group are in non-decreasing
\* timestamp order, an absent timestamp counting as time 0, and actions of
\* equal timestamp are in input order.
C15_ActionsChronological ==
    \A g \in DOMAIN workflowGroups :
        LET as == workflowGroups[g].actions
        IN  \A k, l \in DOMAIN as :
               k < l =>
                  \/ OrderTime(as[k]) < OrderTime(as[l])
                  \/ /\ OrderTime(as[k]) = OrderTime(as[l])
                     /\ InputPosition(as[k]) < InputPosition(as[l])

\* a group of three actions: the one without a timestamp came last in the
\* input and is listed first, the other two have equal timestamps
C15_Witness ==
    \E g \in DOMAIN workflowGroups :
        LET as == workflowGroups[g].actions
        IN  /\ Len(as) = 3
            /\ as[1].timestamp = NoTimestamp
            /\ InputPosition(as[1]) = 3
            /\ as[2].timestamp = as[3].timestamp
            /\ as[2].timestamp # NoTimestamp

\* the session the target names, for a target other than "no_session" that
\* names a listed session with at least one event
TargetSessions ==
    {s \in Range(sessions) : s.id = selectedSession /\ s.id # "no_session" /\ s.events # <<>>}

\* the actions (non-prompt events) of a session
SessionActions(s) == {e \in Range(s.events) : ~IsPrompt(e)}

\* the earliest timestamp of a non-empty set of events
EarliestTime(es) ==
    CHOOSE t \in {OrderTime(e) : e \in es} : \A e \in es : t <= OrderTime(e)

\* C16: for a specific-session target with at least one action, with t0 the
\* earliest action timestamp of the session, the relevant prompts are
\* exactly the prompts p of the corpus with p < t0 and t0 - p < 300000 ms.
C16_RelevantPrompts ==
    \A s \in TargetSessions :
        SessionActions(s) # {} =>
            LET t0 == EarliestTime(SessionActions(s))
            IN  Range(RelevantPrompts(sessions, SortByTime(s.events)))
                   = {p \in Range(Prompts(sessions)) :
                         OrderTime(p) < t0 /\ t0 - OrderTime(p) < 300000}

\* the session actions a relevant prompt captures: those from the prompt up
\* to the next relevant prompt
Captured(s, rps, i) ==
    {a \in SessionActions(s) :
        /\ OrderTime(rps[i]) <= OrderTime(a)
        /\ i < Len(rps) => OrderTime(a) < OrderTime(rps[i + 1])}

\* C17: for a specific-session target, a relevant prompt anchors a group if
\* and only if it captured at least one action of the session or it is the
\* only relevant prompt; a lone relevant prompt that captured no action
\* anchors a group with an empty actions list.
C17_KeptIffCapturedOrLone ==
    \A s \in TargetSessions :
        LET rps == RelevantPrompts(sessions, SortByTime(s.events))
        IN  \A i \in DOMAIN rps :
               /\ (\E g \in DOMAIN workflowGroups : workflowGroups[g].prompt = rps[i])
                     <=> (Captured(s, rps, i) # {} \/ Len(rps) = 1)
               /\ (Len(rps) = 1 /\ Captured(s, rps, i) = {})
                     => workflowGroups = << [prompt |-> rps[i], actions |-> <<>>] >>

\* the prompts of the corpus less than 5 minutes before the earliest action
\* of a session
PromptsBeforeActions(s) ==
    LET t0 == EarliestTime(SessionActions(s))
    IN  {p \in Range(Prompts(sessions)) :
            OrderTime(p) < t0 /\ t0 - OrderTime(p) < 300000}

\* C18: for a specific-session target whose session has an action and no
\* prompt less than 5 minutes before its earliest action, the result is one
\* group without a prompt whose actions are all events of the session in
\* chronological order; for either target kind a group without a prompt
\* never comes with another group.
C18_FallbackGroup ==
    /\ \A s \in TargetSessions :
          (SessionActions(s) # {} /\ PromptsBeforeActions(s) = {})
             => /\ Len(workflowGroups) = 1
                /\ workflowGroups[1].prompt = NullEvent
                /\ LET as == workflowGroups[1].actions
                   IN  /\ Len(as) = Len(s.events)
                       /\ Range(as) = Range(s.events)
                       /\ \A k, l \in DOMAIN as :
                             k < l => OrderTime(as[k]) <= OrderTime(as[l])
    /\ \A g \in DOMAIN workflowGroups :
          workflowGroups[g].prompt = NullEvent => Len(workflowGroups) = 1

\* the listed sessions a specific-session target can name
SpecificSessions == {s \in Range(sessions) : s.id # "no_session" /\ s.events # <<>>}

\* a session starts less than 5 minutes after a prompt
StartsAfter(s, p) ==
    LET start == EarliestTime(Range(s.events))
    IN  OrderTime(p) < start /\ start - OrderTime(p) < 300000

\* the last of the prompts a session starts less than 5 minutes after
LastPromptBefore(s, p) ==
    /\ StartsAfter(s, p)
    /\ \A q \in Range(Prompts(sessions)) :
          (StartsAfter(s, q) /\ q # p)
             => \/ OrderTime(q) < OrderTime(p)
                \/ OrderTime(q) = OrderTime(p) /\ InputPosition(q) < InputPosition(p)

Anchors(p, id) == \E g \in DOMAIN GroupsFor(id) : GroupsFor(id)[g].prompt = p

\* C19: sessions are correlated independently of each other: a prompt that
\* is the last one before the start of session s1 and also of another
\* session s2 (both start less than 5 minutes after it) anchors a group in
\* the result for s1, a group in the result for s2, and a group of the
\* "no_session" view.
C19_PromptAnchorsTwoSessions ==
    \A p \in Range(Prompts(sessions)) :
        \A s1, s2 \in SpecificSessions :
            (s1.id # s2.id /\ LastPromptBefore(s1, p) /\ LastPromptBefore(s2, p))
                => /\ Anchors(p, s1.id)
                   /\ Anchors(p, s2.id)
                   /\ Anchors(p, "no_session")

\* session A is shown with a group anchored by a prompt that also anchors a
\* group of session B and a group of the "no_session" view
C19_Witness ==
    /\ selectedSession = "A"
    /\ \E g \in DOMAIN workflowGroups :
          /\ workflowGroups[g].prompt # NullEvent
          /\ Anchors(workflowGroups[g].prompt, "B")
          /\ Anchors(workflowGroups[g].prompt, "no_session")

(***************************************************************************)
(* Properties of the metrics (session count, weekday rotation)             *)
(***************************************************************************)
\* the distinct non-empty trajectory_id values of a list of events
DistinctTrajectoryIds(ls) == {ls[i].trajectory_id : i \in DOMAIN ls} \ {""}

\* C21: the session count the Sessions card shows is the number of distinct
\* non-empty trajectory_id values among the events of a non-empty list, 0
\* when none of them has one.
C21_SessionCountDistinctIds ==
    logs # <<>> =>
        \A nowMs \in NowValues :
            Metrics(logs, nowMs).filteredSessionCount
                = Cardinality(DistinctTrajectoryIds(logs))

\* C22: the weekday rotation is a bijection of the 7 buckets: the server
\* bucket k (0 = Monday .. 6 = Sunday) is shown at index (k + 1) mod 7
\* (0 = Sunday .. 6 = Saturday), each displayed count is the number of events
\* of that weekday, and the total over the 7 buckets is unchanged.
C22_WeekdayRotation ==
    LET server == ServerDailyActivity(logs)
        shown == RotatedDailyActivity(server)
    IN  /\ Len(shown) = 7
        /\ \A k \in 0..6 : shown[((k + 1) % 7) + 1] = server[k + 1]
        /\ \A d \in 0..6 : shown[d + 1] = DailyActivity(logs)[d]
        /\ SumSeq(shown) = SumSeq(server)

\* events of a Thursday and of a Tuesday are shown in the buckets 4 and 2
C22_Witness ==
    LET shown == RotatedDailyActivity(ServerDailyActivity(logs))
    IN  /\ shown[5] > 0 /\ shown[3] > 0
        /\ ServerDailyActivity(logs)[4] > 0 /\ ServerDailyActivity(logs)[2] > 0


(* Properties of the logs requests (metrics frame, ordering, loading flag) *)
\* C23: the metrics shown do not depend on the list filters: no step of the
\* search box (typing, toggling the regex flag, searching, and the reloads
\* of the list that follow) changes the metrics computed for a loaded list;
\* the directory never changes and nothing is refreshed in SpecSearch.
C23_MetricsIndependentOfFilters ==
    [][(logs # <<>> /\ logs' # <<>>)
            => \A nowMs \in NowValues : Metrics(logs', nowMs) = Metrics(logs, nowMs)]_vars


(* Properties of the specific-session view *)
\* every event of the corpus carries a timestamp
AllTimestampsValid ==
    \A e \in Range(AllEvents(sessions)) : e.timestamp # NoTimestamp

\* the prompts of the corpus the session starts less than 5 minutes after
PromptsBefore(s) == {p \in Range(Prompts(sessions)) : StartsAfter(s, p)}

C25_LatestResponseDisplayed ==
    [][\A req \in RequestPool :
          ((FetchLogsRespond(req) \/ SearchLogsRespond(req)) /\ inflight' = EmptyBag)
              => logs' = EntriesOrEmpty(ServerResponse(lastRequest))]_vars

\* C26: the loading flag is true exactly while a logs request is in flight;
\* a request that settles does not clear it while another one is pending.
C26_LoadingIffInFlight ==
    loading <=> inflight # EmptyBag

\* C27: when the request of fetchLogs or of searchLogs fails with a network
\* error, the list becomes empty and the loading flag false.
C27_FailureEmptiesList ==
    [][\A req \in RequestPool :
          (FetchLogsFail(req) \/ SearchLogsFail(req))
              => (logs' = <<>> /\ loading' = FALSE)]_vars

(* Properties of the keyboard navigation *)
\* C28: selectedEntryIndex is -1 or the index of an entry of the list, after
\* any ArrowUp / ArrowDown and any reload of the list.
C28_SelectedEntryIndexValid ==
    selectedEntryIndex = -1
        \/ (0 <= selectedEntryIndex /\ selectedEntryIndex < Len(logs))


(* Properties of the session selection *)
\* C29: selectedSession is null or the id of a session of the current
\* session list, after any selection, refresh and directory change.
C29_SelectedSessionListed ==
    selectedSession = Null \/ HasSession(selectedSession)


(* Properties of the toasts *)
HasToastId(id) == \E i \in DOMAIN toasts : toasts[i].id = id

\* a step that adds a toast
ToastAdded == Len(toasts') > Len(toasts)

\* a step that removes toasts removes exactly the toasts that carry the id
\* of one pending timer
RemovesOneId ==
    Len(toasts') < Len(toasts)
        => \E id \in 0..MaxNow :
              /\ BagIn(id, timers)
              /\ \A i \in DOMAIN toasts : toasts[i].id # id => toasts[i].id \in {toasts'[j].id : j \in DOMAIN toasts'}
              /\ ~\E j \in DOMAIN toasts' : toasts'[j].id = id
              /\ Len(toasts') = Cardinality({i \in DOMAIN toasts : toasts[i].id # id})

\* C30: every toast that is added is eventually removed, and the list of
\* toasts is eventually empty for good unless toasts keep being added; a
\* timer removes exactly the toasts that carry its own id, so that two
\* toasts added in the same millisecond go together with the first timer.
C30_ToastsEventuallyRemoved ==
    /\ \A id \in 0..MaxNow : HasToastId(id) ~> ~HasToastId(id)
    /\ <>[](toasts = <<>>) \/ []<><<ToastAdded>>_vars
    /\ [][RemovesOneId]_vars

\* two toasts were added in the same millisecond and the first of their two
\* timers has removed both: the second timer is still pending
C30_Witness ==
    /\ toasts = <<>>
    /\ \E id \in 0..MaxNow : BagIn(id, timers)

====
